---- MODULE Spec2Model ----
(***************************************************************************)
(* Model of vllm/entrypoints/openai/serving_tokenization.py:               *)
(* OpenAIServingTokenization (create_tokenize, create_detokenize,          *)
(* get_tokenizer_info) and TokenizerInfo (_get_tokenizer_config,           *)
(* _make_json_serializable).                                               *)
(*                                                                         *)
(* One call is followed from its entry to its outcome; the awaits of the   *)
(* handlers are the boundaries between the steps.  Collaborators that are  *)
(* not part of this file (_check_model, _maybe_get_adapters,               *)
(* get_tokenizer, _preprocess_chat, _preprocess_completion, _log_inputs,   *)
(* _tokenize_prompt_input_async) return or raise nondeterministically.     *)
(***************************************************************************)
EXTENDS Integers, Sequences, FiniteSets, TLC

\* ---------------------------------------------------------------- bounds
MaxPrompts == 2   \* engine prompts one preprocessing call may produce
MaxWrapDepth == 2 \* wrapper subclasses stacked on a tokenizer family class
MaxNodes == 4     \* nodes of a config value tree

\* ------------------------------------------------------- optional values
None == [some |-> FALSE]
Some(x) == [some |-> TRUE, v |-> x]

\* Python truthiness of an Optional[str]: None and "" are falsy.
Truthy(o) == o.some /\ o.v # ""

\* Python `a or b` on Optional[str] values.
PyOr(a, b) == IF Truthy(a) THEN a ELSE b

TemplateTexts == {"", "T"}
OptTemplates == {None} \cup {Some(s) : s \in TemplateTexts}

\* ------------------------------------------------------------ exceptions
\* Exception classes a collaborator may raise; RuntimeError stands for any
\* Exception subclass outside the tuple of the except clause at line 101.
ExcKinds == {"ValueError", "TypeError", "TemplateError", "RuntimeError"}
\* str(e) and str(e.__cause__) of the exceptions raised: one without text
\* and without cause, one with both.
ExcTexts == {[text |-> "", cause |-> "None"], [text |-> "bad input", cause |-> "inner"]}
Exceptions == {[kind |-> k, text |-> x.text, cause |-> x.cause] : k \in ExcKinds, x \in ExcTexts}

\* The except clause of create_tokenize.
CaughtByTokenizeNoTemplateError(e) == e.kind \in {"ValueError", "TypeError"}
CaughtByTokenize(e) == e.kind \in {"ValueError", "TypeError", "TemplateError"}

\* ErrorResponse built by self.create_error_response(message).
create_error_response(message) == [kind |-> "ErrorResponse", message |-> message]

\* f"{e} {e.__cause__}"
PreprocessErrorMessage(e) == <<e.text, " ", e.cause>>

\* f"Failed to get tokenizer info: {e!s}"
InfoErrorMessage(e) == <<"Failed to get tokenizer info: ", e.text>>

\* The ErrorResponse _check_model returns for an unknown model.
ModelNotFound == [kind |-> "ErrorResponse", message |-> <<"The model does not exist.">>]

Raised(e) == [kind |-> "raised", exc |-> e]
NoResult == [kind |-> "none"]

\* ------------------------------------------------------------ tokenizers
TokenIds == {1, 2}
FamilyName == "LlamaTokenizerFast"
LibraryBase == "PreTrainedTokenizerFast"
WrapperName(d) == IF d = 1 THEN "CachedLlamaTokenizerFast" ELSE "CustomWrapper"

\* The class of a tokenizer and its ancestors on the first-base chain:
\* d wrapper subclasses, the family class, the library base class.
RECURSIVE ClassChain(_)
ClassChain(d) == IF d = 0 THEN <<FamilyName, LibraryBase, "object">>
                 ELSE <<WrapperName(d)>> \o ClassChain(d - 1)

\* The id of the special token put in front of a prompt that is encoded
\* with add_special_tokens.
BosId == 0

\* tokenizer.convert_ids_to_tokens applied to one id.  Vocabulary "N" is
\* the one of "A" under a tokenizer that lowercases its input.
TokenStr(vocab, id) == IF id = BosId THEN "<s>"
                       ELSE IF vocab \in {"A", "N"} THEN (IF id = 1 THEN "hello" ELSE "world")
                       ELSE (IF id = 1 THEN "foo" ELSE "bar")

\* The words a tokenizer encodes, and the id of each.
Vocabulary(vocab) == IF vocab = "A" THEN {"hello", "world"}
                     ELSE IF vocab = "N" THEN {"hello", "Hello", "world"}
                     ELSE {"foo", "bar"}
EncodeWord(vocab, w) == IF w \in {"hello", "Hello", "foo"} THEN 1 ELSE 2

\* tokenizer.encode(text, add_special_tokens=...), a text being the
\* sequence of its words.
encode(tok, text, add_special_tokens) ==
    (IF add_special_tokens THEN <<BosId>> ELSE <<>>)
        \o [j \in 1..Len(text) |-> EncodeWord(tok.vocab, text[j])]

\* tokenizer.convert_ids_to_tokens(ids): one token string per id, in order.
convert_ids_to_tokens(tok, ids) == [j \in 1..Len(ids) |-> TokenStr(tok.vocab, ids[j])]

\* self.max_model_len, echoed into every TokenizeResponse.
MaxModelLen == 4096

\* ------------------------------------------------------------- requests
MaxReqTokens == 2 \* token ids a DetokenizeRequest may carry

OptLora == {None, Some("lora-1")}
OptPromptAdapter == {None, Some("pa-1")}

\* TokenizeCompletionRequest | TokenizeChatRequest, told apart by `form`.
TokenizeRequests ==
    [form : {"completion"}, prompt : {"hello world"}, chat_template : {None},
     add_special_tokens : BOOLEAN, return_token_strs : BOOLEAN,
     lora : OptLora, pa : OptPromptAdapter]
    \cup
    [form : {"chat"}, prompt : {"messages"}, chat_template : OptTemplates,
     add_special_tokens : BOOLEAN, return_token_strs : BOOLEAN,
     lora : OptLora, pa : OptPromptAdapter]

RECURSIVE SeqsUpTo(_, _)
SeqsUpTo(S, n) == IF n = 0 THEN {<<>>}
                  ELSE SeqsUpTo(S, n - 1) \cup
                       {Append(q, x) : q \in {r \in SeqsUpTo(S, n - 1) : Len(r) = n - 1}, x \in S}

DetokenizeRequests == [tokens : SeqsUpTo(TokenIds, MaxReqTokens), lora : OptLora, pa : OptPromptAdapter]

NoRequest == [form |-> "none"]

\* --------------------------------------------------------- engine prompts
\* What _preprocess_chat / _preprocess_completion may hand back: a dict
\* with "prompt_token_ids", a dict without it, or a value that is no dict.
PromptTokenIds == {<<>>, <<1>>, <<2>>, <<1, 2>>}
EnginePrompts ==
    [is_dict : {TRUE}, has_ids : {TRUE}, prompt_token_ids : PromptTokenIds]
    \cup [is_dict : BOOLEAN, has_ids : {FALSE}, prompt_token_ids : {<<>>}]

EnginePromptLists == SeqsUpTo(EnginePrompts, MaxPrompts)

\* request_prompts, parallel to engine_prompts.
RequestPromptsFor(eps) == [j \in 1..Len(eps) |-> [orig |-> j]]

\* isinstance(engine_prompt, dict) and "prompt_token_ids" in engine_prompt
CarriesIdsUnlessDict(ep) == ~ep.is_dict /\ ep.has_ids
CarriesIds(ep) == ep.is_dict /\ ep.has_ids

\* ------------------------------------------------------ config values
\* The values found in a tokenizer's init_kwargs: a plain leaf, an object
\* with a `content` attribute (AddedToken), a list, a dict (its items in
\* insertion order).
Leaf(x) == [t |-> "leaf", v |-> x]
Wrap(c) == [t |-> "wrap", content |-> c]
List(items) == [t |-> "list", items |-> items]
Dict(items) == [t |-> "dict", items |-> items]
Item(k, v) == [k |-> k, v |-> v]
NotRun == [t |-> "unset"]

LeafValues == {"a", "b"}
Keys == {"k1", "k2"}

\* Sequences of m pairwise different keys.
KeySeqs(m) == {ks \in [1..m -> Keys] : \A a, b \in 1..m : ks[a] = ks[b] => a = b}

\* The dicts whose values are, in order, the values of f.
DictsOver(f) == {Dict([j \in 1..Len(f) |-> Item(ks[j], f[j])]) : ks \in KeySeqs(Len(f))}

\* The acyclic value trees of n nodes, and the sequences of trees of n
\* nodes in all.
RECURSIVE TreesOfSize(_), ForestsOfSize(_)
ForestsOfSize(n) ==
    IF n = 0 THEN {<<>>}
    ELSE UNION {{<<t>> \o f : t \in TreesOfSize(k), f \in ForestsOfSize(n - k)} : k \in 1..n}
TreesOfSize(n) ==
    IF n = 0 THEN {}
    ELSE (IF n = 1 THEN {Leaf(x) : x \in LeafValues} ELSE {})
         \cup {Wrap(c) : c \in TreesOfSize(n - 1)}
         \cup {List(f) : f \in ForestsOfSize(n - 1)}
         \cup UNION {DictsOver(f) : f \in ForestsOfSize(n - 1)}

Trees == UNION {TreesOfSize(n) : n \in 1..MaxNodes}

\* TokenizerInfo._make_json_serializable (lines 207-218).
RECURSIVE make_json_serializableKeepLists(_), make_json_serializable(_)
make_json_serializableKeepLists(o) ==
    IF o.t = "wrap" THEN o.content
    ELSE IF o.t = "dict"
    THEN Dict([j \in 1..Len(o.items) |->
                 Item(o.items[j].k, make_json_serializableKeepLists(o.items[j].v))])
    ELSE o
make_json_serializable(o) ==
    IF o.t = "wrap" THEN o.content
    ELSE IF o.t = "dict"
    THEN Dict([j \in 1..Len(o.items) |->
                 Item(o.items[j].k, make_json_serializable(o.items[j].v))])
    ELSE IF o.t = "list"
    THEN List([j \in 1..Len(o.items) |-> make_json_serializable(o.items[j])])
    ELSE o

\* dict methods used by _get_tokenizer_config.
HasKey(d, key) == \E j \in 1..Len(d.items) : d.items[j].k = key
Get(d, key) == d.items[CHOOSE j \in 1..Len(d.items) : d.items[j].k = key].v
PopKeepsKey(d, key) == d
Pop(d, key) == Dict(SelectSeq(d.items, LAMBDA it : it.k # key))
SetItem(d, key, val) ==
    IF HasKey(d, key)
    THEN Dict([j \in 1..Len(d.items) |->
                 IF d.items[j].k = key THEN Item(key, val) ELSE d.items[j]])
    ELSE Dict(Append(d.items, Item(key, val)))

\* self.tokenizer.__class__.__bases__[0].__name__
FirstBaseName(tok) == ClassChain(tok.depth)[2]

\* dict(self.tokenizer.init_kwargs) if hasattr(self.tokenizer, 'init_kwargs')
\* and self.tokenizer.init_kwargs else {}
BaseConfig(tok) ==
    IF tok.init_kwargs.some /\ tok.init_kwargs.v.items # <<>>
    THEN tok.init_kwargs.v
    ELSE Dict(<<>>)

\* TokenizerInfo._get_tokenizer_config (lines 192-205); chat_template is
\* self.chat_template of the TokenizerInfo.
get_tokenizer_config(tok, chat_template) ==
    LET popped == Pop(Pop(Pop(BaseConfig(tok), "vocab_file"), "merges_file"), "chat_template")
        config == SetItem(make_json_serializable(popped), "tokenizer_class",
                          Leaf(FirstBaseName(tok)))
    IN  IF chat_template # None
        THEN SetItem(config, "chat_template", Leaf(chat_template.v))
        ELSE config

\* Whether `config` of _get_tokenizer_config is the tokenizer's own
\* init_kwargs object: dict(...) at line 194 builds a new mapping, so it
\* is not.
ConfigSharesInitKwargsNoCopy(tok) ==
    tok.init_kwargs.some /\ tok.init_kwargs.v.items # <<>>
ConfigSharesInitKwargs(tok) == FALSE

\* The tokenizer's init_kwargs once _get_tokenizer_config has run: the
\* pops of lines 196-199 write to `config`; line 200 rebinds `config` to
\* the tree _make_json_serializable builds with comprehensions, so the
\* later item assignments and the rewrite write to no object of the
\* tokenizer.
init_kwargs_after(tok) ==
    IF ConfigSharesInitKwargs(tok)
    THEN Some(Pop(Pop(Pop(tok.init_kwargs.v, "vocab_file"), "merges_file"),
                  "chat_template"))
    ELSE tok.init_kwargs

\* ------------------------------------------------- tokenizers, continued
\* Entries a tokenizer's init_kwargs may hold.
KwItems ==
    << Item("vocab_file", Leaf("/models/vocab.json")),
       Item("merges_file", Leaf("/models/merges.txt")),
       Item("chat_template", Leaf("K")),
       Item("tokenizer_class", Leaf("StoredClass")),
       Item("bos_token", Wrap(Leaf("<s>"))),
       Item("added_tokens", List(<<Wrap(Leaf("<pad>")), Leaf("x")>>)) >>

RECURSIVE SubSeqs(_)
SubSeqs(q) ==
    IF q = <<>> THEN {<<>>}
    ELSE LET r == SubSeqs(Tail(q)) IN r \cup {<<Head(q)>> \o x : x \in r}

\* init_kwargs: missing or None, or a dict (maybe empty).
KwargsChoices == {None} \cup {Some(Dict(q)) : q \in SubSeqs(KwItems)}

\* The tokenizers the engine client may hand to get_tokenizer_info.
InfoTokenizers ==
    [vocab : {"A"}, chat_template : OptTemplates, init_kwargs : KwargsChoices,
     depth : 0..MaxWrapDepth]

NoTokenizer == [vocab |-> "none"]

\* The tokenizers the engine client may hand to create_tokenize and
\* create_detokenize, which read nothing of them but the vocabulary.
ServingTokenizers == [vocab : {"A", "B"}]

VARIABLES
    self_chat_template,      \* self.chat_template, set in __init__
    pc,                      \* position of the call in its handler
    op,                      \* the handler the call runs
    request,                 \* the request of the call
    lora_request,            \* first result of _maybe_get_adapters
    prompt_adapter_request,  \* second result of _maybe_get_adapters
    tokenizer,               \* the tokenizer the call acquired
    request_prompts,         \* preprocessing output, original prompts
    engine_prompts,          \* preprocessing output, engine prompts
    i,                       \* loop index of the flattening loop
    input_ids,               \* flattened token ids
    result,                  \* outcome of the call
    calls,                   \* collaborator calls made by the call, in order
    obj,                     \* argument of _make_json_serializable
    sanitized,               \* _make_json_serializable(obj)
    resanitized,             \* _make_json_serializable(sanitized)
    roundtrip,               \* the text a client sent to tokenize, kept for its detokenize call
    provider,                \* the tokenizer the engine client hands out at present
    tasks                    \* the local variables of each of the calls in flight together

vars == <<self_chat_template, pc, op, request, lora_request, prompt_adapter_request,
          tokenizer, request_prompts, engine_prompts, i, input_ids, result, calls,
          obj, sanitized, resanitized, roundtrip, provider, tasks>>

\* The state in which no call is in flight.
Idle ==
    /\ pc = "idle"
    /\ op = "none"
    /\ request = NoRequest
    /\ lora_request = None
    /\ prompt_adapter_request = None
    /\ tokenizer = NoTokenizer
    /\ request_prompts = <<>>
    /\ engine_prompts = <<>>
    /\ i = 0
    /\ input_ids = <<>>
    /\ result = NoResult
    /\ calls = <<>>

\* No value is being sanitized.
SanitizerIdle ==
    /\ obj = NotRun
    /\ sanitized = NotRun
    /\ resanitized = NotRun

\* __init__: chat_template is Optional[str].
Init ==
    /\ self_chat_template \in OptTemplates
    /\ Idle
    /\ SanitizerIdle
    /\ roundtrip = None
    /\ provider = NoTokenizer
    /\ tasks = <<>>

\* What leaves the try block of create_tokenize when e is raised inside it.
TokenizeExcept(e) ==
    IF CaughtByTokenize(e)
    THEN create_error_response(PreprocessErrorMessage(e))
    ELSE Raised(e)

\* `if error_check_ret is not None: return error_check_ret` (lines 60, 134).
ReturnsEarlyNever(error_check_ret) == FALSE
ReturnsEarly(error_check_ret) == error_check_ret # NoResult

\* What self._check_model(request) returns: None or an ErrorResponse.
check_model(known) == IF known THEN NoResult ELSE ModelNotFound

\* The argument of self.engine_client.get_tokenizer(lora_request), given
\* the two adapters of the request (lines 71, 144).
TokenizerSelectorAnyAdapter(lora, pa) == IF pa.some THEN pa ELSE lora
TokenizerSelector(lora, pa) == lora

\* The call ends with outcome r.
Finish(r) ==
    /\ result' = r
    /\ pc' = "done"

\* ------------------------------------------------------ create_tokenize
\* Lines 59-63: await self._check_model(request).
TokenizeCheckModel ==
    /\ pc = "idle"
    /\ \E r \in TokenizeRequests, known \in BOOLEAN :
        /\ request' = r
        /\ op' = "tokenize"
        /\ calls' = <<[fn |-> "check_model", error |-> ~known, exc |-> None]>>
        /\ IF ReturnsEarly(check_model(known))
           THEN Finish(check_model(known))
           ELSE pc' = "tok_acquire" /\ result' = NoResult
    /\ UNCHANGED <<provider, tasks, roundtrip, obj, sanitized, resanitized, self_chat_template, lora_request, prompt_adapter_request, tokenizer,
                   request_prompts, engine_prompts, i, input_ids>>

\* Lines 65-71: self._maybe_get_adapters(request), then
\* await self.engine_client.get_tokenizer(lora_request), inside the try.
TokenizeAcquire ==
    /\ pc = "tok_acquire"
    /\ \/ \E e \in Exceptions :
            /\ calls' = Append(calls, [fn |-> "maybe_get_adapters", exc |-> Some(e)])
            /\ Finish(TokenizeExcept(e))
            /\ UNCHANGED <<lora_request, prompt_adapter_request, tokenizer>>
       \/ \E e \in Exceptions :
            /\ calls' = calls \o <<[fn |-> "maybe_get_adapters", exc |-> None],
                                   [fn |-> "get_tokenizer", lora |-> TokenizerSelector(request.lora, request.pa),
                                    exc |-> Some(e)]>>
            /\ lora_request' = request.lora
            /\ prompt_adapter_request' = request.pa
            /\ Finish(TokenizeExcept(e))
            /\ UNCHANGED tokenizer
       \/ \E t \in ServingTokenizers :
            /\ calls' = calls \o <<[fn |-> "maybe_get_adapters", exc |-> None],
                                   [fn |-> "get_tokenizer", lora |-> TokenizerSelector(request.lora, request.pa),
                                    exc |-> None]>>
            /\ lora_request' = request.lora
            /\ prompt_adapter_request' = request.pa
            /\ tokenizer' = t
            /\ pc' = "tok_preprocess"
            /\ UNCHANGED result
    /\ UNCHANGED <<provider, tasks, roundtrip, obj, sanitized, resanitized, self_chat_template, op, request, request_prompts, engine_prompts,
                   i, input_ids>>

\* The call create_tokenize makes to preprocessing (lines 73-100).
PreprocessCallAlwaysCompletion(x) ==
    [fn |-> "preprocess_completion", tokenizer |-> tokenizer,
     prompt |-> request.prompt,
     add_special_tokens |-> request.add_special_tokens, exc |-> x]
PreprocessCall(x) ==
    IF request.form = "chat"
    THEN [fn |-> "preprocess_chat", tokenizer |-> tokenizer,
          chat_template |-> PyOr(request.chat_template, self_chat_template),
          add_special_tokens |-> request.add_special_tokens, exc |-> x]
    ELSE [fn |-> "preprocess_completion", tokenizer |-> tokenizer,
          prompt |-> request.prompt,
          add_special_tokens |-> request.add_special_tokens, exc |-> x]

\* Lines 73-103: await self._preprocess_chat / self._preprocess_completion.
TokenizePreprocess ==
    /\ pc = "tok_preprocess"
    /\ \/ \E e \in Exceptions :
            /\ calls' = Append(calls, PreprocessCall(Some(e)))
            /\ Finish(TokenizeExcept(e))
            /\ UNCHANGED <<request_prompts, engine_prompts>>
       \/ \E eps \in EnginePromptLists :
            /\ calls' = Append(calls, PreprocessCall(None))
            /\ engine_prompts' = eps
            /\ request_prompts' = RequestPromptsFor(eps)
            /\ pc' = "tok_flatten"
            /\ UNCHANGED result
    /\ UNCHANGED <<provider, tasks, roundtrip, obj, sanitized, resanitized, self_chat_template, op, request, lora_request, prompt_adapter_request,
                   tokenizer, i, input_ids>>

\* self._log_inputs(request_id, prompt, params=None, lora_request=...,
\* prompt_adapter_request=...)
LogInputsCall(prompt, x) ==
    [fn |-> "log_inputs", prompt |-> prompt, lora |-> lora_request,
     pa |-> prompt_adapter_request, exc |-> x]

\* input_ids.extend(engine_prompt["prompt_token_ids"])
extendAtFront(ids, more) == more \o ids
extend(ids, more) == ids \o more

\* Lines 106-117: one iteration of the loop over engine_prompts.
TokenizeFlattenStep ==
    /\ pc = "tok_flatten"
    /\ i < Len(engine_prompts)
    /\ \/ \E e \in Exceptions :
            /\ calls' = Append(calls, LogInputsCall(request_prompts[i + 1], Some(e)))
            /\ Finish(Raised(e))
            /\ UNCHANGED <<i, input_ids>>
       \/ /\ calls' = Append(calls, LogInputsCall(request_prompts[i + 1], None))
          /\ input_ids' = IF CarriesIds(engine_prompts[i + 1])
                          THEN extend(input_ids, engine_prompts[i + 1].prompt_token_ids)
                          ELSE input_ids
          /\ i' = i + 1
          /\ UNCHANGED <<pc, result>>
    /\ UNCHANGED <<provider, tasks, roundtrip, obj, sanitized, resanitized, self_chat_template, op, request, lora_request, prompt_adapter_request,
                   tokenizer, request_prompts, engine_prompts>>

\* TokenizeResponse(tokens=..., token_strs=..., count=..., max_model_len=...)
TokenizeResponseCountingStrs(ids, strs) ==
    [kind |-> "TokenizeResponse", tokens |-> ids, token_strs |-> strs,
     count |-> IF strs.some THEN Len(strs.v) ELSE 0, max_model_len |-> MaxModelLen]
TokenizeResponse(ids, strs) ==
    [kind |-> "TokenizeResponse", tokens |-> ids, token_strs |-> strs,
     count |-> Len(ids), max_model_len |-> MaxModelLen]

\* Lines 119-126: token_strs and the response.
TokenizeAssemble ==
    /\ pc = "tok_flatten"
    /\ i = Len(engine_prompts)
    /\ IF request.return_token_strs
       THEN \/ \E e \in Exceptions :
                    /\ calls' = Append(calls, [fn |-> "convert_ids_to_tokens",
                                               tokenizer |-> tokenizer, exc |-> Some(e)])
                    /\ Finish(Raised(e))
            \/ /\ calls' = Append(calls, [fn |-> "convert_ids_to_tokens",
                                          tokenizer |-> tokenizer, exc |-> None])
               /\ Finish(TokenizeResponse(input_ids,
                                          Some(convert_ids_to_tokens(tokenizer, input_ids))))
       ELSE /\ calls' = calls
            /\ Finish(TokenizeResponse(input_ids, None))
    /\ UNCHANGED <<provider, tasks, roundtrip, obj, sanitized, resanitized, self_chat_template, op, request, lora_request, prompt_adapter_request,
                   tokenizer, request_prompts, engine_prompts, i, input_ids>>

\* ---------------------------------------------------- create_detokenize
\* tokenizer.decode(ids): the token strings of the ids, in order.
decode(tok, ids) == [j \in 1..Len(ids) |-> TokenStr(tok.vocab, ids[j])]

\* What self._tokenize_prompt_input_async(request, tokenizer, tokens)
\* returns for a list of token ids.
tokenize_prompt_input(tok, tokens) == [prompt |-> decode(tok, tokens), prompt_token_ids |-> tokens]

\* DetokenizeResponse(prompt=input_text)
DetokenizeResponse(prompt_input) == [kind |-> "DetokenizeResponse", prompt |-> prompt_input.prompt]

\* create_detokenize has no try: what e raised in it becomes.
DetokenizeRaiseConverted(e) == TokenizeExcept(e)
DetokenizeRaise(e) == Raised(e)

\* Lines 133-137: await self._check_model(request).
DetokenizeCheckModel ==
    /\ pc = "idle"
    /\ \E r \in DetokenizeRequests, known \in BOOLEAN :
        /\ request' = r
        /\ op' = "detokenize"
        /\ calls' = <<[fn |-> "check_model", error |-> ~known, exc |-> None]>>
        /\ IF ReturnsEarly(check_model(known))
           THEN Finish(check_model(known))
           ELSE pc' = "detok_acquire" /\ result' = NoResult
    /\ UNCHANGED <<provider, tasks, roundtrip, obj, sanitized, resanitized, self_chat_template, lora_request, prompt_adapter_request, tokenizer,
                   request_prompts, engine_prompts, i, input_ids>>

\* Lines 139-144: self._maybe_get_adapters(request), then
\* await self.engine_client.get_tokenizer(lora_request); no try here.
DetokenizeAcquire ==
    /\ pc = "detok_acquire"
    /\ \/ \E e \in Exceptions :
            /\ calls' = Append(calls, [fn |-> "maybe_get_adapters", exc |-> Some(e)])
            /\ Finish(DetokenizeRaise(e))
            /\ UNCHANGED <<lora_request, prompt_adapter_request, tokenizer>>
       \/ \E e \in Exceptions :
            /\ calls' = calls \o <<[fn |-> "maybe_get_adapters", exc |-> None],
                                   [fn |-> "get_tokenizer", lora |-> TokenizerSelector(request.lora, request.pa),
                                    exc |-> Some(e)]>>
            /\ lora_request' = request.lora
            /\ prompt_adapter_request' = request.pa
            /\ Finish(DetokenizeRaise(e))
            /\ UNCHANGED tokenizer
       \/ \E t \in ServingTokenizers :
            /\ calls' = calls \o <<[fn |-> "maybe_get_adapters", exc |-> None],
                                   [fn |-> "get_tokenizer", lora |-> TokenizerSelector(request.lora, request.pa),
                                    exc |-> None]>>
            /\ lora_request' = request.lora
            /\ prompt_adapter_request' = request.pa
            /\ tokenizer' = t
            /\ pc' = "detok_reconstruct"
            /\ UNCHANGED result
    /\ UNCHANGED <<provider, tasks, roundtrip, obj, sanitized, resanitized, self_chat_template, op, request, request_prompts, engine_prompts,
                   i, input_ids>>

\* The call create_detokenize makes to the single-prompt normalizer.
NormalizerCall(x) ==
    [fn |-> "tokenize_prompt_input", tokenizer |-> tokenizer, tokens |-> request.tokens,
     exc |-> x]

\* Lines 146-162: self._log_inputs(...), then
\* await self._tokenize_prompt_input_async(request, tokenizer, request.tokens)
\* and the response.
DetokenizeReconstruct ==
    /\ pc = "detok_reconstruct"
    /\ \/ \E e \in Exceptions :
            /\ calls' = Append(calls, LogInputsCall(request.tokens, Some(e)))
            /\ Finish(DetokenizeRaise(e))
       \/ \E e \in Exceptions :
            /\ calls' = calls \o <<LogInputsCall(request.tokens, None), NormalizerCall(Some(e))>>
            /\ Finish(DetokenizeRaise(e))
       \/ /\ calls' = calls \o <<LogInputsCall(request.tokens, None), NormalizerCall(None)>>
          /\ Finish(DetokenizeResponse(tokenize_prompt_input(tokenizer, request.tokens)))
    /\ UNCHANGED <<provider, tasks, roundtrip, obj, sanitized, resanitized, self_chat_template, op, request, lora_request, prompt_adapter_request,
                   tokenizer, request_prompts, engine_prompts, i, input_ids>>

\* --------------------------------------------------- get_tokenizer_info
\* `except Exception` (line 173).
CaughtByInfoAsTokenize(e) == CaughtByTokenize(e)
CaughtByInfo(e) == TRUE

\* What leaves the try block of get_tokenizer_info when e is raised in it.
InfoExcept(e) ==
    IF CaughtByInfo(e)
    THEN create_error_response(InfoErrorMessage(e))
    ELSE Raised(e)

\* Lines 168-170: the chat template handed to TokenizerInfo.
ResolveChatTemplate(include_chat_template, tok) ==
    IF include_chat_template
    THEN PyOr(tok.chat_template, self_chat_template)
    ELSE None

\* TokenizerInfoResponse(**info)
TokenizerInfoResponse(info) == [kind |-> "TokenizerInfoResponse", info |-> info]

\* Lines 164-167: await self.engine_client.get_tokenizer().
InfoAcquire ==
    /\ pc = "idle"
    /\ \E include \in BOOLEAN :
        /\ request' = [form |-> "info", include_chat_template |-> include]
        /\ op' = "info"
        /\ \/ \E e \in Exceptions :
                /\ calls' = <<[fn |-> "get_tokenizer", lora |-> None, exc |-> Some(e)]>>
                /\ Finish(InfoExcept(e))
                /\ UNCHANGED tokenizer
           \/ \E t \in InfoTokenizers :
                /\ calls' = <<[fn |-> "get_tokenizer", lora |-> None, exc |-> None]>>
                /\ tokenizer' = t
                /\ pc' = "info_build"
                /\ result' = NoResult
    /\ UNCHANGED <<provider, tasks, roundtrip, obj, sanitized, resanitized, self_chat_template, lora_request,
                   prompt_adapter_request, request_prompts, engine_prompts, i, input_ids>>

\* Lines 168-176: the template, TokenizerInfo(...).to_dict() and the
\* response, each of which may raise.
InfoBuild ==
    /\ pc = "info_build"
    /\ \/ \E e \in Exceptions :
            /\ request.include_chat_template
            /\ calls' = Append(calls, [fn |-> "getattr_chat_template", exc |-> Some(e)])
            /\ Finish(InfoExcept(e))
            /\ UNCHANGED tokenizer
       \/ \E e \in Exceptions :
            /\ calls' = Append(calls, [fn |-> "to_dict", exc |-> Some(e)])
            /\ Finish(InfoExcept(e))
            /\ UNCHANGED tokenizer
       \/ \E e \in Exceptions :
            /\ calls' = calls \o <<[fn |-> "to_dict", exc |-> None],
                                   [fn |-> "TokenizerInfoResponse", exc |-> Some(e)]>>
            /\ Finish(InfoExcept(e))
            /\ tokenizer' = [tokenizer EXCEPT !.init_kwargs = init_kwargs_after(tokenizer)]
       \/ /\ calls' = calls \o <<[fn |-> "to_dict", exc |-> None],
                                 [fn |-> "TokenizerInfoResponse", exc |-> None]>>
          /\ Finish(TokenizerInfoResponse(
                 get_tokenizer_config(tokenizer,
                     ResolveChatTemplate(request.include_chat_template, tokenizer))))
          /\ tokenizer' = [tokenizer EXCEPT !.init_kwargs = init_kwargs_after(tokenizer)]
    /\ UNCHANGED <<provider, tasks, roundtrip, obj, sanitized, resanitized, self_chat_template, op, request, lora_request,
                   prompt_adapter_request, request_prompts, engine_prompts,
                   i, input_ids>>

\* ---------------------------------------------- _make_json_serializable
ServiceUnchanged ==
    UNCHANGED <<self_chat_template, pc, op, request, lora_request, prompt_adapter_request,
                tokenizer, request_prompts, engine_prompts, i, input_ids, result, calls>>

\* The sanitizer is applied to a config value.
Sanitize ==
    /\ obj # NotRun
    /\ sanitized = NotRun
    /\ sanitized' = make_json_serializable(obj)
    /\ UNCHANGED <<obj, resanitized, roundtrip, provider, tasks>>
    /\ ServiceUnchanged

\* The sanitizer is applied to its own output.
Resanitize ==
    /\ sanitized # NotRun
    /\ resanitized = NotRun
    /\ resanitized' = make_json_serializable(sanitized)
    /\ UNCHANGED <<obj, sanitized, roundtrip, provider, tasks>>
    /\ ServiceUnchanged

\* ------------------------------------- tokenize, then detokenize its tokens
MaxTextWords == 2 \* words of a text sent to tokenize

\* The tokenizers deployed behind the two endpoints in turn.
RoundTripTokenizers == ServingTokenizers \cup {[vocab |-> "N"]}

TextsOf(tok) == SeqsUpTo(Vocabulary(tok.vocab), MaxTextWords)

\* tokenizer.decode undoes tokenizer.encode on every text of the tokenizer.
ExactInverse(tok) == \A text \in TextsOf(tok) : decode(tok, encode(tok, text, FALSE)) = text

\* A client sends a text in completion form; _check_model passes.
RoundTripTokenize ==
    /\ pc = "idle"
    /\ \E t \in RoundTripTokenizers, special \in BOOLEAN :
        \E text \in TextsOf(t) :
            /\ roundtrip' = Some([text |-> text, tokenizer |-> t, add_special_tokens |-> special])
            /\ request' = [form |-> "completion", prompt |-> text, chat_template |-> None,
                           add_special_tokens |-> special, return_token_strs |-> FALSE,
                           lora |-> None, pa |-> None]
    /\ op' = "tokenize"
    /\ calls' = <<[fn |-> "check_model", error |-> FALSE, exc |-> None]>>
    /\ pc' = "tok_acquire"
    /\ UNCHANGED <<provider, tasks, obj, sanitized, resanitized, self_chat_template, lora_request,
                   prompt_adapter_request, tokenizer, request_prompts, engine_prompts,
                   i, input_ids, result>>

\* Lines 66-71 and 139-144 when the adapters resolve and the engine client
\* hands out the deployed tokenizer.
RoundTripAcquire ==
    /\ pc \in {"tok_acquire", "detok_acquire"}
    /\ roundtrip # None
    /\ calls' = calls \o <<[fn |-> "maybe_get_adapters", exc |-> None],
                           [fn |-> "get_tokenizer", lora |-> TokenizerSelector(request.lora, request.pa), exc |-> None]>>
    /\ lora_request' = request.lora
    /\ prompt_adapter_request' = request.pa
    /\ tokenizer' = roundtrip.v.tokenizer
    /\ pc' = IF pc = "tok_acquire" THEN "tok_preprocess" ELSE "detok_reconstruct"
    /\ UNCHANGED <<provider, tasks, roundtrip, obj, sanitized, resanitized, self_chat_template, op, request,
                   request_prompts, engine_prompts, i, input_ids, result>>

\* What _preprocess_completion returns for a text prompt: one engine
\* prompt holding the tokenizer's encoding of the text.
preprocess_completion(tok, prompt, add_special_tokens) ==
    <<[is_dict |-> TRUE, has_ids |-> TRUE,
       prompt_token_ids |-> encode(tok, prompt, add_special_tokens)]>>

\* Lines 94-100 when _preprocess_completion returns.
RoundTripPreprocess ==
    /\ pc = "tok_preprocess"
    /\ roundtrip # None
    /\ calls' = Append(calls, PreprocessCall(None))
    /\ engine_prompts' = preprocess_completion(tokenizer, request.prompt,
                                               request.add_special_tokens)
    /\ request_prompts' = RequestPromptsFor(engine_prompts')
    /\ pc' = "tok_flatten"
    /\ UNCHANGED <<provider, tasks, roundtrip, obj, sanitized, resanitized, self_chat_template, op, request,
                   lora_request, prompt_adapter_request, tokenizer, i, input_ids, result>>

\* The client sends the tokens of its TokenizeResponse to detokenize;
\* _check_model passes.
RoundTripDetokenize ==
    /\ pc = "done"
    /\ op = "tokenize"
    /\ roundtrip # None
    /\ result.kind = "TokenizeResponse"
    /\ request' = [tokens |-> result.tokens, lora |-> None, pa |-> None]
    /\ op' = "detokenize"
    /\ calls' = <<[fn |-> "check_model", error |-> FALSE, exc |-> None]>>
    /\ pc' = "detok_acquire"
    /\ lora_request' = None
    /\ prompt_adapter_request' = None
    /\ tokenizer' = NoTokenizer
    /\ request_prompts' = <<>>
    /\ engine_prompts' = <<>>
    /\ i' = 0
    /\ input_ids' = <<>>
    /\ result' = NoResult
    /\ UNCHANGED <<provider, tasks, roundtrip, obj, sanitized, resanitized, self_chat_template>>

\* ------------------------------------------------- calls in flight together
NumCalls == 2 \* calls interleaved at their awaits

CallIds == 1..NumCalls

\* The requests of the interleaved calls.
ConcurrentRequests ==
    [op : {"tokenize"}, text : {<<"hello", "world">>}, tokens : {<<>>},
     add_special_tokens : BOOLEAN, return_token_strs : BOOLEAN]
    \cup [op : {"detokenize"}, text : {<<>>}, tokens : {<<1, 2>>},
          add_special_tokens : {FALSE}, return_token_strs : {FALSE}]

\* The locals of a call that has not started.
NotStarted ==
    [pc |-> "idle", request |-> NoRequest, tokenizer |-> NoTokenizer,
     engine_prompts |-> <<>>, result |-> NoResult, calls |-> <<>>]

\* `tokenizer` in a handler is the local variable bound at lines 71 and
\* 144, whatever the engine client hands out by now.
TokenizerInUseRefetched(local, current) == current
TokenizerInUse(local, current) == local

\* Lines 59-63 and 133-137 of call c.
ConcurrentCheckModel(c) ==
    /\ tasks[c].pc = "idle"
    /\ \E r \in ConcurrentRequests, known \in BOOLEAN :
        tasks' = [tasks EXCEPT ![c] =
            [@ EXCEPT !.request = r,
                      !.calls = <<[fn |-> "check_model", error |-> ~known, exc |-> None]>>,
                      !.pc = IF ReturnsEarly(check_model(known)) THEN "done" ELSE "acquire",
                      !.result = check_model(known)]]
    /\ UNCHANGED provider

\* Lines 66-71 and 139-144 of call c: the engine client returns the
\* tokenizer it holds when the await completes.
ConcurrentAcquire(c) ==
    /\ tasks[c].pc = "acquire"
    /\ tasks' = [tasks EXCEPT ![c] =
            [@ EXCEPT !.tokenizer = provider,
                      !.calls = @ \o <<[fn |-> "maybe_get_adapters", exc |-> None],
                                       [fn |-> "get_tokenizer", lora |-> None,
                                        ret |-> provider, exc |-> None]>>,
                      !.pc = IF tasks[c].request.op = "tokenize"
                             THEN "preprocess" ELSE "reconstruct"]]
    /\ UNCHANGED provider

\* Lines 94-100 of call c, _preprocess_completion returning.
ConcurrentPreprocess(c) ==
    /\ tasks[c].pc = "preprocess"
    /\ LET t == tasks[c]
           tok == TokenizerInUse(t.tokenizer, provider)
       IN tasks' = [tasks EXCEPT ![c] =
            [@ EXCEPT !.engine_prompts =
                          preprocess_completion(tok, t.request.text,
                                                t.request.add_special_tokens),
                      !.calls = Append(@, [fn |-> "preprocess_completion",
                                           tokenizer |-> tok, exc |-> None]),
                      !.pc = "flatten"]]
    /\ UNCHANGED provider

\* The ids lines 105-117 collect from engine prompts eps.
RECURSIVE Flatten(_, _)
Flatten(ids, eps) ==
    IF eps = <<>> THEN ids
    ELSE Flatten(IF CarriesIds(Head(eps)) THEN extend(ids, Head(eps).prompt_token_ids)
                 ELSE ids,
                 Tail(eps))

\* Lines 105-126 of call c, which hold no await.
ConcurrentAssemble(c) ==
    /\ tasks[c].pc = "flatten"
    /\ LET t == tasks[c]
           tok == TokenizerInUse(t.tokenizer, provider)
           ids == Flatten(<<>>, t.engine_prompts)
       IN tasks' = [tasks EXCEPT ![c] =
            [@ EXCEPT !.calls = IF t.request.return_token_strs
                                THEN Append(@, [fn |-> "convert_ids_to_tokens",
                                                tokenizer |-> tok, exc |-> None])
                                ELSE @,
                      !.result = TokenizeResponse(ids,
                                     IF t.request.return_token_strs
                                     THEN Some(convert_ids_to_tokens(tok, ids))
                                     ELSE None),
                      !.pc = "done"]]
    /\ UNCHANGED provider

\* Lines 146-162 of call c.
ConcurrentReconstruct(c) ==
    /\ tasks[c].pc = "reconstruct"
    /\ LET t == tasks[c]
           tok == TokenizerInUse(t.tokenizer, provider)
       IN tasks' = [tasks EXCEPT ![c] =
            [@ EXCEPT !.calls = Append(@, [fn |-> "tokenize_prompt_input",
                                           tokenizer |-> tok, exc |-> None]),
                      !.result = DetokenizeResponse(
                                     tokenize_prompt_input(tok, t.request.tokens)),
                      !.pc = "done"]]
    /\ UNCHANGED provider

\* The engine client's tokenizer is replaced (hot reload).
SwapTokenizer ==
    /\ \E t \in ServingTokenizers : t # provider /\ provider' = t
    /\ UNCHANGED tasks

ConcurrentFrame ==
    UNCHANGED <<self_chat_template, pc, op, request, lora_request, prompt_adapter_request,
                tokenizer, request_prompts, engine_prompts, i, input_ids, result, calls,
                obj, sanitized, resanitized, roundtrip>>

\* The call is over; the service keeps nothing of it.
Return ==
    /\ pc = "done"
    /\ pc' = "idle"
    /\ op' = "none"
    /\ request' = NoRequest
    /\ lora_request' = None
    /\ prompt_adapter_request' = None
    /\ tokenizer' = NoTokenizer
    /\ request_prompts' = <<>>
    /\ engine_prompts' = <<>>
    /\ i' = 0
    /\ input_ids' = <<>>
    /\ result' = NoResult
    /\ calls' = <<>>
    /\ roundtrip' = None
    /\ UNCHANGED <<provider, tasks, obj, sanitized, resanitized, self_chat_template>>

Next ==
    \/ TokenizeCheckModel
    \/ TokenizeAcquire
    \/ TokenizePreprocess
    \/ TokenizeFlattenStep
    \/ TokenizeAssemble
    \/ DetokenizeCheckModel
    \/ DetokenizeAcquire
    \/ DetokenizeReconstruct
    \/ Return

Spec == Init /\ [][Next]_vars

\* get_tokenizer_info alone, over tokenizers with all their attributes.
InfoNext ==
    \/ InfoAcquire
    \/ InfoBuild
    \/ Return

SpecInfo == Init /\ [][InfoNext]_vars

\* A completion-form tokenize call followed by a detokenize call on its
\* tokens, both served by the same tokenizer.
RoundTripNext ==
    \/ RoundTripTokenize
    \/ RoundTripAcquire
    \/ RoundTripPreprocess
    \/ TokenizeFlattenStep
    \/ TokenizeAssemble
    \/ RoundTripDetokenize
    \/ DetokenizeReconstruct
    \/ Return

SpecRoundTrip == Init /\ [][RoundTripNext]_vars

\* NumCalls calls interleaved at their awaits while the engine client's
\* tokenizer is swapped.
ConcurrentInit ==
    /\ self_chat_template = None
    /\ Idle
    /\ SanitizerIdle
    /\ roundtrip = None
    /\ provider \in ServingTokenizers
    /\ tasks = [c \in CallIds |-> NotStarted]

ConcurrentNext ==
    \/ \E c \in CallIds : ConcurrentCheckModel(c) /\ ConcurrentFrame
    \/ \E c \in CallIds : ConcurrentAcquire(c) /\ ConcurrentFrame
    \/ \E c \in CallIds : ConcurrentPreprocess(c) /\ ConcurrentFrame
    \/ \E c \in CallIds : ConcurrentAssemble(c) /\ ConcurrentFrame
    \/ \E c \in CallIds : ConcurrentReconstruct(c) /\ ConcurrentFrame
    \/ SwapTokenizer /\ ConcurrentFrame

SpecConcurrent == ConcurrentInit /\ [][ConcurrentNext]_vars

\* _make_json_serializable alone, over all value trees of the bounded size.
SanInit ==
    /\ self_chat_template = None
    /\ Idle
    /\ obj \in Trees
    /\ sanitized = NotRun
    /\ resanitized = NotRun
    /\ roundtrip = None
    /\ provider = NoTokenizer
    /\ tasks = <<>>

SanNext ==
    \/ Sanitize
    \/ Resanitize

SpecSan == SanInit /\ [][SanNext]_vars

\* ======================================================== properties
Last(q) == q[Len(q)]
Ended(o) == pc = "done" /\ op = o

\* Some part of message m is not the empty string.
MessageNonEmpty(m) == \E j \in 1..Len(m) : m[j] # ""

\* Message m carries text as one of its parts.
MessageContains(m, text) == \E j \in 1..Len(m) : m[j] = text

\* C1: in tokenize and detokenize, when _check_model returns an error the
\* call ends at once with exactly that ErrorResponse, and no other
\* collaborator (adapters, tokenizer, preprocessing, normalizer, logging)
\* has been called.
C1_ValidationFirst ==
    (op \in {"tokenize", "detokenize"} /\ calls[1].fn = "check_model" /\ calls[1].error)
        => /\ pc = "done"
           /\ result = ModelNotFound
           /\ Len(calls) = 1
           /\ tokenizer = NoTokenizer

C1_Witness ==
    /\ Ended("detokenize")
    /\ calls[1].error
    /\ result = ModelNotFound

\* The token ids of the engine prompts that carry a prompt_token_ids field,
\* concatenated in the order of the prompts.
RECURSIVE ConcatIds(_)
ConcatIds(eps) ==
    IF eps = <<>> THEN <<>>
    ELSE (IF Head(eps).has_ids THEN Head(eps).prompt_token_ids ELSE <<>>) \o ConcatIds(Tail(eps))

\* C2: the tokens of every TokenizeResponse are the in-order concatenation
\* of the prompt_token_ids of the engine prompts that carry the field; an
\* engine prompt without it adds nothing.
C2_TokensAreConcatenation ==
    (Ended("tokenize") /\ result.kind = "TokenizeResponse")
        => result.tokens = ConcatIds(engine_prompts)

C2_Witness ==
    /\ Ended("tokenize")
    /\ result.kind = "TokenizeResponse"
    /\ Len(engine_prompts) = 2
    /\ ~engine_prompts[1].has_ids
    /\ engine_prompts[2].has_ids
    /\ result.tokens = engine_prompts[2].prompt_token_ids
    /\ result.tokens # <<>>

\* Two prompts with different ids keep their order.
C2_WitnessOrder ==
    /\ Ended("tokenize")
    /\ result.kind = "TokenizeResponse"
    /\ result.tokens = <<2, 1>>

\* C3: in every TokenizeResponse count is the length of tokens; token_strs
\* is present exactly when the request set return_token_strs, and then it
\* holds, position by position, the acquired tokenizer's token string of
\* each token id, so it is as long as count.
C3_ResponseShape ==
    (Ended("tokenize") /\ result.kind = "TokenizeResponse")
        => /\ result.count = Len(result.tokens)
           /\ result.token_strs.some <=> request.return_token_strs
           /\ result.token_strs.some =>
                /\ Len(result.token_strs.v) = result.count
                /\ \A j \in 1..result.count :
                     result.token_strs.v[j] = TokenStr(tokenizer.vocab, result.tokens[j])

C3_Witness ==
    /\ Ended("tokenize")
    /\ result.kind = "TokenizeResponse"
    /\ request.return_token_strs
    /\ result.count = 2
    /\ result.token_strs = Some(<<"world", "hello">>)

C3_WitnessEmpty ==
    /\ Ended("tokenize")
    /\ result.kind = "TokenizeResponse"
    /\ request.return_token_strs
    /\ result.count = 0
    /\ result.token_strs = Some(<<>>)

\* C4: when chat or completion preprocessing raises ValueError, TypeError
\* or a template error, tokenize returns an ErrorResponse whose message is
\* not empty and carries the error text; an exception of another kind
\* leaves tokenize as raised.
C4_PreprocessErrors ==
    (Ended("tokenize") /\ Last(calls).fn \in {"preprocess_chat", "preprocess_completion"}
        /\ Last(calls).exc.some)
        => IF Last(calls).exc.v.kind \in {"ValueError", "TypeError", "TemplateError"}
           THEN /\ result.kind = "ErrorResponse"
                /\ MessageNonEmpty(result.message)
                /\ MessageContains(result.message, Last(calls).exc.v.text)
           ELSE result = Raised(Last(calls).exc.v)

C4_Witness ==
    /\ Ended("tokenize")
    /\ Last(calls).fn = "preprocess_chat"
    /\ Last(calls).exc.some
    /\ Last(calls).exc.v.kind = "TemplateError"
    /\ result.kind = "ErrorResponse"

\* C5: in tokenize, whatever get_tokenizer raises leaves the call as
\* raised and is never turned into an ErrorResponse.
C5_AcquireFailurePropagates ==
    (Ended("tokenize") /\ Last(calls).fn = "get_tokenizer" /\ Last(calls).exc.some)
        => result = Raised(Last(calls).exc.v)

\* C6: once _check_model has passed, whatever a collaborator of detokenize
\* raises leaves the call as raised, so the only ErrorResponse of
\* detokenize is the one of _check_model; a call that succeeds returns
\* DetokenizeResponse with the prompt field of the normalizer's result for
\* request.tokens.
C6_DetokenizeNoRecovery ==
    Ended("detokenize")
        => /\ result.kind = "ErrorResponse" => (calls[1].error /\ result = ModelNotFound)
           /\ \A j \in 1..Len(calls) : calls[j].exc.some => result = Raised(calls[j].exc.v)
           /\ result.kind \in {"ErrorResponse", "raised", "DetokenizeResponse"}
           /\ result.kind = "DetokenizeResponse" =>
                /\ \A j \in 1..Len(calls) : ~calls[j].exc.some
                /\ Last(calls).fn = "tokenize_prompt_input"
                /\ Last(calls).tokens = request.tokens
                /\ result.prompt = tokenize_prompt_input(tokenizer, request.tokens).prompt

C6_Witness ==
    /\ Ended("detokenize")
    /\ Last(calls).fn = "tokenize_prompt_input"
    /\ Last(calls).exc.some
    /\ Last(calls).exc.v.kind = "ValueError"
    /\ result.kind = "raised"

C6_WitnessSuccess ==
    /\ Ended("detokenize")
    /\ result = [kind |-> "DetokenizeResponse", prompt |-> <<"hello", "world">>]

C8_ChatTemplateKey ==
    (Ended("info") /\ result.kind = "TokenizerInfoResponse")
        => /\ ~request.include_chat_template => ~HasKey(result.info, "chat_template")
           /\ (request.include_chat_template
               /\ (tokenizer.chat_template.some \/ self_chat_template.some))
                => HasKey(result.info, "chat_template")

\* C9: every info output has tokenizer_class, and it is the name of the
\* tokenizer's family class however many wrapper subclasses (none, one,
\* several) the tokenizer's class stacks on it and whatever
\* tokenizer_class the init_kwargs hold.
C9_TokenizerClassIsFamily ==
    (Ended("info") /\ result.kind = "TokenizerInfoResponse")
        => /\ HasKey(result.info, "tokenizer_class")
           /\ Get(result.info, "tokenizer_class") = Leaf(FamilyName)

\* No object with a content attribute is left in o, at any depth.
RECURSIVE NoWrapper(_)
NoWrapper(o) ==
    IF o.t = "wrap" THEN FALSE
    ELSE IF o.t = "dict" THEN \A j \in 1..Len(o.items) : NoWrapper(o.items[j].v)
    ELSE IF o.t = "list" THEN \A j \in 1..Len(o.items) : NoWrapper(o.items[j])
    ELSE TRUE

\* C10: _make_json_serializable is idempotent on every acyclic value tree:
\* applied to its own output it returns that output, which holds no
\* object with a content attribute at any depth.
C10_SanitizeIdempotent ==
    resanitized # NotRun
        => /\ resanitized = sanitized
           /\ NoWrapper(sanitized)

\* C11: a _log_inputs call that raises leaves the call's outcome alone: in
\* tokenize and detokenize no exception of logging gets out of the
\* handler.
C11_LogFailureHarmless ==
    (pc = "done" /\ op \in {"tokenize", "detokenize"}
        /\ \E j \in 1..Len(calls) : calls[j].fn = "log_inputs" /\ calls[j].exc.some)
        => result.kind # "raised"

\* C12: with a tokenizer whose decode undoes its encode, and without
\* special tokens, detokenize of the tokens that a completion-form tokenize
\* returned for a text gives that text back.
C12_RoundTrip ==
    (Ended("detokenize") /\ roundtrip # None /\ result.kind = "DetokenizeResponse"
        /\ ExactInverse(roundtrip.v.tokenizer) /\ ~roundtrip.v.add_special_tokens)
        => result.prompt = roundtrip.v.text

C12_Witness ==
    /\ Ended("detokenize")
    /\ roundtrip # None
    /\ ExactInverse(roundtrip.v.tokenizer)
    /\ ~roundtrip.v.add_special_tokens
    /\ roundtrip.v.text = <<"hello", "world">>
    /\ request.tokens = <<1, 2>>
    /\ result = [kind |-> "DetokenizeResponse", prompt |-> <<"hello", "world">>]

\* Without exactness of the tokenizer the text need not come back.
C12_AnyTokenizer ==
    (Ended("detokenize") /\ roundtrip # None /\ result.kind = "DetokenizeResponse"
        /\ ~roundtrip.v.add_special_tokens)
        => result.prompt = roundtrip.v.text

\* With special tokens the text need not come back.
C12_AnyFlag ==
    (Ended("detokenize") /\ roundtrip # None /\ result.kind = "DetokenizeResponse"
        /\ ExactInverse(roundtrip.v.tokenizer))
        => result.prompt = roundtrip.v.text

\* Some collaborator call of the running call raised.
SomeCallRaised == \E j \in 1..Len(calls) : calls[j].exc.some

\* The outcome of an ended tokenize or detokenize call as given by its
\* request without the prompt adapter and by what its collaborators
\* returned or raised.
OutcomeWithoutPromptAdapter ==
    IF calls[1].error THEN ModelNotFound
    ELSE IF SomeCallRaised
    THEN (IF op = "tokenize"
             /\ Last(calls).fn \in {"maybe_get_adapters", "get_tokenizer",
                                    "preprocess_chat", "preprocess_completion"}
          THEN TokenizeExcept(Last(calls).exc.v)
          ELSE Raised(Last(calls).exc.v))
    ELSE IF op = "tokenize"
    THEN [kind |-> "TokenizeResponse", tokens |-> ConcatIds(engine_prompts),
          token_strs |-> IF request.return_token_strs
                         THEN Some([j \in 1..Len(ConcatIds(engine_prompts)) |->
                                      TokenStr(tokenizer.vocab, ConcatIds(engine_prompts)[j])])
                         ELSE None,
          count |-> Len(ConcatIds(engine_prompts)), max_model_len |-> MaxModelLen]
    ELSE [kind |-> "DetokenizeResponse",
          prompt |-> [j \in 1..Len(request.tokens) |-> TokenStr(tokenizer.vocab, request.tokens[j])]]

\* C13: the prompt adapter of a tokenize or detokenize request reaches the
\* _log_inputs calls and nothing else: the tokenizer is asked for with the
\* LoRA adapter alone, the preprocessing call does not carry it, the
\* outcome of the call is fixed by the rest of the request and by what the
\* collaborators returned, and a call in which no collaborator failed ends
\* with a success response whether or not the request has the adapter.
C13_PromptAdapterIgnored ==
    (op \in {"tokenize", "detokenize"})
        => /\ \A j \in 1..Len(calls) :
                /\ calls[j].fn = "get_tokenizer" => calls[j].lora = request.lora
                /\ "pa" \in DOMAIN calls[j] =>
                     (calls[j].fn = "log_inputs" /\ calls[j].pa = request.pa)
                /\ calls[j].fn \in {"preprocess_chat", "preprocess_completion",
                                    "tokenize_prompt_input"}
                     => calls[j].tokenizer = tokenizer
           /\ pc = "done" =>
                /\ result = OutcomeWithoutPromptAdapter
                /\ (~calls[1].error /\ ~SomeCallRaised)
                     => result.kind \in {"TokenizeResponse", "DetokenizeResponse"}

C13_Witness ==
    /\ Ended("tokenize")
    /\ request.pa = Some("pa-1")
    /\ request.lora = None
    /\ result.kind = "TokenizeResponse"
    /\ Len(calls) = 5
    /\ calls[5].fn = "log_inputs"
    /\ calls[5].pa = Some("pa-1")

\* The get_tokenizer calls call record t has made.
Acquisitions(t) == {j \in 1..Len(t.calls) : t.calls[j].fn = "get_tokenizer"}

\* The tokenizer the engine client returned to call record t.
Acquired(t) == t.calls[CHOOSE j \in Acquisitions(t) : TRUE].ret

\* What C14 asks of one call record.
UsesItsOwnTokenizer(t) ==
    /\ Cardinality(Acquisitions(t)) <= 1
    /\ t.pc \in {"preprocess", "flatten", "reconstruct"} => Cardinality(Acquisitions(t)) = 1
    /\ \A j \in 1..Len(t.calls) :
         "tokenizer" \in DOMAIN t.calls[j] => t.calls[j].tokenizer = Acquired(t)
    /\ t.result.kind = "TokenizeResponse" =>
         /\ Cardinality(Acquisitions(t)) = 1
         /\ t.result.tokens = encode(Acquired(t), t.request.text, t.request.add_special_tokens)
         /\ t.result.token_strs =
              IF t.request.return_token_strs
              THEN Some([j \in 1..Len(t.result.tokens) |->
                           TokenStr(Acquired(t).vocab, t.result.tokens[j])])
              ELSE None
    /\ t.result.kind = "DetokenizeResponse" =>
         /\ Cardinality(Acquisitions(t)) = 1
         /\ t.result.prompt = [j \in 1..Len(t.request.tokens) |->
                                 TokenStr(Acquired(t).vocab, t.request.tokens[j])]

\* What C14 asks of one step: it changes the locals of one call at most,
\* a step of a call leaves the engine client's tokenizer and the service's
\* template alone, and nothing changes an ended call (a swap, a step of
\* another call).
StepIsLocal ==
    /\ \A c, d \in DOMAIN tasks : (c # d /\ tasks'[c] # tasks[c]) => tasks'[d] = tasks[d]
    /\ tasks' # tasks => (provider' = provider /\ self_chat_template' = self_chat_template)
    /\ \A c \in DOMAIN tasks : tasks[c].pc = "done" => tasks'[c] = tasks[c]

\* C14: with calls interleaved at their awaits and the engine client's
\* tokenizer swapped at any point, every call asks for the tokenizer once
\* and hands that instance to preprocessing, to the token-string conversion
\* and to the reconstruction, so tokens and token_strs of a response come
\* from one instance and a later swap changes no response; no call changes
\* what another call sees.
C14_TokenizerSnapshot ==
    /\ [](\A c \in DOMAIN tasks : UsesItsOwnTokenizer(tasks[c]))
    /\ [][StepIsLocal]_vars

C14_Witness ==
    \E c, d \in DOMAIN tasks :
        /\ tasks[c].pc = "done"
        /\ tasks[c].result.kind = "TokenizeResponse"
        /\ tasks[c].request.return_token_strs
        /\ tasks[c].tokenizer # provider
        /\ tasks[d].pc = "flatten"
        /\ tasks[d].tokenizer = provider

RECURSIVE ConcatSize(_)
ConcatSize(q) == IF q = <<>> THEN 0 ELSE Head(q) + ConcatSize(Tail(q))

\* The number of nodes of a value tree.
RECURSIVE Size(_)
Size(o) ==
    IF o.t = "wrap" THEN 1 + Size(o.content)
    ELSE IF o.t = "dict"
    THEN 1 + ConcatSize([j \in 1..Len(o.items) |-> Size(o.items[j].v)])
    ELSE IF o.t = "list"
    THEN 1 + ConcatSize([j \in 1..Len(o.items) |-> Size(o.items[j])])
    ELSE 1

\* out is what C16 says the rewrite of in is.
RECURSIVE IsRewriteOf(_, _)
IsRewriteOf(out, in) ==
    IF in.t = "wrap" THEN out = in.content
    ELSE IF in.t = "dict"
    THEN /\ out.t = "dict"
         /\ Len(out.items) = Len(in.items)
         /\ {out.items[j].k : j \in 1..Len(out.items)} = {in.items[j].k : j \in 1..Len(in.items)}
         /\ \A j \in 1..Len(in.items) :
              /\ out.items[j].k = in.items[j].k
              /\ IsRewriteOf(out.items[j].v, in.items[j].v)
    ELSE IF in.t = "list"
    THEN /\ out.t = "list"
         /\ Len(out.items) = Len(in.items)
         /\ \A j \in 1..Len(in.items) : IsRewriteOf(out.items[j], in.items[j])
    ELSE out = in

\* C16: on every acyclic value tree _make_json_serializable returns a
\* value (a tree no larger than its input): a mapping gives a mapping of
\* the same keys whose values are the rewritten values, a sequence a
\* sequence of the same length whose elements are the rewritten elements
\* in order, a value with a content attribute gives that content, any
\* other value gives itself.
C16_StructurePreserving ==
    sanitized # NotRun
        => /\ IsRewriteOf(sanitized, obj)
           /\ sanitized \in Trees
           /\ Size(sanitized) <= Size(obj)

C16_Witness ==
    /\ sanitized # NotRun
    /\ obj.t = "dict"
    /\ Len(obj.items) = 1
    /\ obj.items[1].v.t = "list"
    /\ Len(obj.items[1].v.items) = 1
    /\ obj.items[1].v.items[1].t = "wrap"
    /\ sanitized = Dict(<<Item(obj.items[1].k, List(<<obj.items[1].v.items[1].content>>))>>)
    /\ sanitized # obj

\* The keys of a dict.
KeysOf(d) == {d.items[j].k : j \in 1..Len(d.items)}

\* The chat_template the TokenizerInfo of the ended info call was built
\* with (line 171).
SuppliedChatTemplate == ResolveChatTemplate(request.include_chat_template, tokenizer)

\* C17: the info output has no vocab_file and no merges_file key; its
\* chat_template, if it has one, is the value the TokenizerInfo was built
\* with and never the one stored in init_kwargs; for a tokenizer whose
\* init_kwargs are missing or empty the output is tokenizer_class, and
\* chat_template when one was supplied, and nothing else.
C17_NoLocalKeys ==
    (Ended("info") /\ result.kind = "TokenizerInfoResponse")
        => /\ ~HasKey(result.info, "vocab_file")
           /\ ~HasKey(result.info, "merges_file")
           /\ HasKey(result.info, "chat_template") <=> SuppliedChatTemplate.some
           /\ HasKey(result.info, "chat_template")
                => /\ Get(result.info, "chat_template") = Leaf(SuppliedChatTemplate.v)
                   /\ Get(result.info, "chat_template") # Leaf("K")
           /\ (~tokenizer.init_kwargs.some \/ tokenizer.init_kwargs.v.items = <<>>)
                => KeysOf(result.info) =
                     {"tokenizer_class"}
                       \cup (IF SuppliedChatTemplate.some THEN {"chat_template"} ELSE {})

C17_Witness ==
    /\ Ended("info")
    /\ result.kind = "TokenizerInfoResponse"
    /\ tokenizer.init_kwargs.some
    /\ {"vocab_file", "merges_file", "chat_template", "bos_token"}
         \subseteq KeysOf(tokenizer.init_kwargs.v)
    /\ SuppliedChatTemplate = Some("T")
    /\ KeysOf(result.info) = {"chat_template", "bos_token", "tokenizer_class"}

C17_WitnessEmpty ==
    /\ Ended("info")
    /\ result.kind = "TokenizerInfoResponse"
    /\ tokenizer.init_kwargs = Some(Dict(<<>>))
    /\ ~request.include_chat_template
    /\ KeysOf(result.info) = {"tokenizer_class"}

\* The first of two optional templates that is there at all, the empty
\* string counting as a template.
FirstPresent(a, b) == IF a.some THEN a ELSE b

\* C18 (a): the template create_tokenize hands to _preprocess_chat is the
\* request's chat_template whenever the request has one, the empty string
\* included, and the service's only when the request has none.
C18_TokenizePrecedence ==
    \A j \in 1..Len(calls) :
        calls[j].fn = "preprocess_chat"
            => calls[j].chat_template = FirstPresent(request.chat_template, self_chat_template)

\* C18 (b): with include_chat_template the info output reports the
\* tokenizer's own template whenever it has one, the empty string
\* included, and the service's only when the tokenizer has none; without
\* include_chat_template it reports none.
C18_InfoPrecedence ==
    (Ended("info") /\ result.kind = "TokenizerInfoResponse")
        => LET want == FirstPresent(tokenizer.chat_template, self_chat_template)
           IN  IF request.include_chat_template /\ want.some
               THEN /\ HasKey(result.info, "chat_template")
                    /\ Get(result.info, "chat_template") = Leaf(want.v)
               ELSE ~HasKey(result.info, "chat_template")

\* C18: chat-template precedence, (a) in a chat-form tokenize and (b) in
\* the tokenizer info: the narrower source wins whenever it has a
\* template, the empty string included; the service's template is used
\* only when the narrower source has none.
C18_ChatTemplatePrecedence ==
    /\ C18_TokenizePrecedence
    /\ C18_InfoPrecedence

\* The positions in `calls` of the calls to fn, and of those that
\* returned.
CallsTo(fn) == {j \in 1..Len(calls) : calls[j].fn = fn}
ReturnedCallsTo(fn) == {j \in CallsTo(fn) : ~calls[j].exc.some}

\* The _log_inputs calls of the call, in the order they were made.
LogCalls == SelectSeq(calls, LAMBDA c : c.fn = "log_inputs")

PreprocessFns == {"preprocess_chat", "preprocess_completion"}
PreprocessReturned ==
    \E j \in 1..Len(calls) : calls[j].fn \in PreprocessFns /\ ~calls[j].exc.some

\* C19 for create_tokenize.
TokenizeLogsEachPrompt ==
    /\ \A j \in CallsTo("log_inputs") :
         \E k \in 1..(j - 1) : calls[k].fn \in PreprocessFns /\ ~calls[k].exc.some
    /\ result.kind = "ErrorResponse" => LogCalls = <<>>
    /\ PreprocessReturned =>
         /\ Len(LogCalls) = Len(engine_prompts)
         /\ \A j \in 1..Len(LogCalls) : LogCalls[j].prompt = request_prompts[j]

\* C19 for create_detokenize.
DetokenizeLogsOnce ==
    /\ ReturnedCallsTo("get_tokenizer") = {} => LogCalls = <<>>
    /\ ReturnedCallsTo("get_tokenizer") # {} =>
         /\ Len(LogCalls) = 1
         /\ \A j \in CallsTo("log_inputs") :
              /\ \A k \in CallsTo("get_tokenizer") : k < j
              /\ \A k \in CallsTo("tokenize_prompt_input") : j < k
    /\ (CallsTo("tokenize_prompt_input") # {} /\ result.kind = "raised")
         => Len(LogCalls) = 1

\* C19: an ended create_tokenize has made one _log_inputs call for each
\* engine prompt preprocessing produced, in their order and each with the
\* request prompt of the same index, all after preprocessing returned, and
\* none when it ends with an ErrorResponse; an ended create_detokenize has
\* made exactly one, after get_tokenizer and before the reconstruction,
\* and none when get_tokenizer failed.
C19_LoggingOrder ==
    /\ Ended("tokenize") => TokenizeLogsEachPrompt
    /\ Ended("detokenize") => DetokenizeLogsOnce

\* The same with the runs left out in which a _log_inputs call raised.
C19_LoggingOrderIfLogReturns ==
    (\A j \in CallsTo("log_inputs") : ~calls[j].exc.some) => C19_LoggingOrder

\* A create_tokenize call is under way: it has started and not ended.
TokenizeRunning == op = "tokenize" /\ pc # "done"

\* Where a create_tokenize call is: 3 before get_tokenizer, 2 before
\* preprocessing, 1 in the loop over engine_prompts, 0 once ended.
Stage(p) ==
    IF p = "tok_acquire" THEN 3
    ELSE IF p = "tok_preprocess" THEN 2
    ELSE IF p = "tok_flatten" THEN 1
    ELSE 0

\* A step of a running create_tokenize takes it to a later stage or, in
\* the loop, to the next engine prompt.
TokenizeAdvances ==
    TokenizeRunning =>
        \/ Stage(pc') < Stage(pc)
        \/ /\ Stage(pc') = Stage(pc)
           /\ engine_prompts' = engine_prompts
           /\ Len(engine_prompts) - i' < Len(engine_prompts) - i
           /\ i' <= Len(engine_prompts)

\* The one step of create_tokenize that is next, whatever its collaborator
\* does.
TokenizeStep ==
    \/ TokenizeAcquire
    \/ TokenizePreprocess
    \/ TokenizeFlattenStep
    \/ TokenizeAssemble

TerminalKinds == {"TokenizeResponse", "ErrorResponse", "raised"}

\* The dispatch on the request's form.
TokenizeDispatch ==
    LET made == {j \in 1..Len(calls) : calls[j].fn \in PreprocessFns}
    IN  /\ Cardinality(made) <= 1
        /\ (ReturnedCallsTo("get_tokenizer") # {} /\ pc \in {"tok_flatten", "done"})
             => Cardinality(made) = 1
        /\ ReturnedCallsTo("get_tokenizer") = {} => made = {}
        /\ \A j \in made :
             /\ calls[j].fn = "preprocess_chat" <=> request.form = "chat"
             /\ calls[j].fn = "preprocess_completion"
                  => /\ calls[j].prompt = request.prompt
                     /\ calls[j].add_special_tokens = request.add_special_tokens

\* C20: a create_tokenize call past _check_model and get_tokenizer makes
\* exactly one preprocessing call, _preprocess_chat if and only if the
\* request is the chat form and otherwise _preprocess_completion with
\* request.prompt and request.add_special_tokens; a running call always
\* has a next step whatever its collaborators return or raise, every step
\* brings it nearer its end, and it ends with exactly one outcome, a
\* TokenizeResponse, an ErrorResponse or a raised exception, set once.
C20_DispatchAndTermination ==
    /\ [](op = "tokenize" =>
            /\ TokenizeDispatch
            /\ TokenizeRunning => (result = NoResult /\ ENABLED TokenizeStep)
            /\ pc = "done" => result.kind \in TerminalKinds)
    /\ [][TokenizeAdvances]_vars
    /\ [][(op = "tokenize" /\ pc = "done" /\ op' = "tokenize") => result' = result]_vars

C20_Witness ==
    /\ Ended("tokenize")
    /\ request.form = "chat"
    /\ CallsTo("preprocess_chat") # {}
    /\ Len(engine_prompts) = MaxPrompts
    /\ i = Len(engine_prompts)
    /\ result.kind = "TokenizeResponse"
====
